---- MODULE Spec2Model ----
(***************************************************************************)
(* Zotero.Creators (chrome/content/zotero/xpcom/data/creators.js):         *)
(* normalisation of creator data (cleanData), identity resolution          *)
(* (getIDFromData), the process-wide creator cache (getAsync) and the      *)
(* purge of unreferenced creators (purge).                                 *)
(*                                                                         *)
(* Coroutines run on one thread: each action below is the synchronous code *)
(* between two suspension points (yield), or the execution of one query    *)
(* (or one transaction) by the store.                                      *)
(***************************************************************************)
EXTENDS Integers, Sequences, FiniteSets, TLC

VARIABLES
    \* ---- cleanData as a pure function (specification SpecClean) ----
    raw,          \* the raw creator data handed to cleanData
    out,          \* cleanData(raw), once applied
    out2,         \* cleanData applied to the fields of out, once applied
    back,         \* cleanData applied to internalToJSON of out, once applied
    \* ---- the store ----
    creators,     \* table creators: set of rows
    itemCreators, \* table itemCreators, projected on creatorID
    nextID,       \* Zotero.ID.get('creators'): the next identity
    purgePref,    \* Zotero.Prefs 'purge.creators'
    \* ---- the module ----
    cache,        \* _creatorCache: creatorID -> cleaned data, or Undefined
    \* ---- purge() coroutine ----
    purgePC,      \* position of the purge coroutine
    toDelete,     \* its local toDelete
    purgeFlag,    \* the preference as the current purge run found it
    deleted,      \* rows the current purge run has deleted
    alone,        \* no other step has run since purge() was called
    purged,       \* identities a purge run has evicted and deleted
    \* ---- getAsync() coroutines ----
    fpc, fid, frow, fres,
    fstale,       \* the call started after a purge had deleted its identity
    fshared,      \* the record the call returned is the object held in the cache
    \* ---- getIDFromData() calls ----
    rpc, rdata, rcreate, rres,
    \* ---- updateCreator() call ----
    upc, uid, udata, ures

cvars == <<raw, out, out2, back>>
dbvars == <<creators, itemCreators, nextID, purgePref>>
pvars == <<purgePC, toDelete, purgeFlag, deleted, purged>>
fvars == <<fpc, fid, frow, fres, fstale, fshared>>
uvars == <<upc, uid, udata, ures>>
rvars == <<rpc, rdata, rcreate, rres>>
vars == <<raw, out, out2, back, creators, itemCreators, nextID, purgePref, cache,
          purgePC, toDelete, purgeFlag, deleted, alone, purged,
          fpc, fid, frow, fres, fstale, fshared, rpc, rdata, rcreate, rres,
          upc, uid, udata, ures>>

-----------------------------------------------------------------------------
(* Bounds *)

\* longest raw name string
MaxLen == 2
\* identities the generator hands out: 1..MaxID
MaxID == 2

-----------------------------------------------------------------------------
(* JavaScript values *)

Undefined == [t |-> "undefined"]
NaN == [t |-> "NaN"]
False == [t |-> "boolean", v |-> FALSE]
Num(n) == [t |-> "number", v |-> n]
Str(s) == [t |-> "string", v |-> s]

IsString(x) == x.t = "string"

\* ToBoolean: undefined, false, NaN, 0 and "" are falsy
Truthy(x) ==
    CASE x.t = "undefined" -> FALSE
      [] x.t = "NaN" -> FALSE
      [] x.t = "boolean" -> x.v
      [] x.t = "number" -> x.v # 0
      [] x.t = "string" -> x.v # <<>>

\* Characters: a space, a base letter, a combining accent, and the composed
\* letter that Unicode normalisation (NFC) makes of the letter and the accent;
\* the digits and "x" occur in fieldMode strings.
Space == "sp"
Chars == {Space, "e", "acute"}
Digits == {"0", "1", "2"}

DigitVal(c) == CASE c = "0" -> 0 [] c = "1" -> 1 [] c = "2" -> 2

RECURSIVE StringsUpTo(_)
StringsUpTo(n) ==
    IF n = 0 THEN {<<>>}
    ELSE LET S == StringsUpTo(n - 1)
         IN S \cup {Append(s, c) : s \in {z \in S : Len(z) = n - 1}, c \in Chars}

\* String.prototype.trim
RECURSIVE TrimLeft(_)
TrimLeft(s) ==
    IF s # <<>> /\ Head(s) = Space THEN TrimLeft(Tail(s)) ELSE s

RECURSIVE TrimRight(_)
TrimRight(s) ==
    IF s # <<>> /\ s[Len(s)] = Space THEN TrimRight(SubSeq(s, 1, Len(s) - 1)) ELSE s

Trim(s) == TrimRight(TrimLeft(s))

\* String.prototype.normalize (NFC): a base letter and a following combining
\* accent compose into one character
RECURSIVE Normalize(_)
Normalize(s) ==
    IF Len(s) < 2 THEN s
    ELSE IF s[1] = "e" /\ s[2] = "acute"
         THEN <<"eacute">> \o Normalize(SubSeq(s, 3, Len(s)))
         ELSE <<s[1]>> \o Normalize(Tail(s))

\* parseInt on a string: the value of the longest prefix of digits (after
\* leading white space), NaN when there is none
RECURSIVE DigitsValue(_, _)
DigitsValue(s, acc) ==
    IF s # <<>> /\ Head(s) \in Digits
    THEN DigitsValue(Tail(s), 10 * acc + DigitVal(Head(s)))
    ELSE acc

\* parseInt(val) for a truthy val
ParseInt(x) ==
    CASE x.t = "number" -> x
      [] x.t = "string" ->
            LET s == TrimLeft(x.v)
            IN IF s # <<>> /\ Head(s) \in Digits THEN Num(DigitsValue(s, 0)) ELSE NaN
      [] OTHER -> NaN

-----------------------------------------------------------------------------
(* Zotero.CreatorTypes *)

\* creator types of the registry: "author" has identity 1
CreatorTypeAuthor == Str(<<"author">>)

\* Zotero.CreatorTypes.getID(idOrName): the identity of a known type name or
\* identity, false otherwise
CreatorTypes_getID(x) ==
    IF x = CreatorTypeAuthor \/ x = Num(1) THEN Num(1) ELSE False

-----------------------------------------------------------------------------
(* cleanData *)

Throw(e) == [ok |-> FALSE, err |-> e]
Return(v) == [ok |-> TRUE, val |-> v]

E_MISSING == "must contain either 'name' or 'firstName'/'lastName'"
E_BOTH == "cannot contain both 'name' and 'firstName'/'lastName'"
E_MODE0 == "'fieldMode' cannot be 0 with 'name'"
E_MODE1 == "'fieldMode' cannot be 1 with 'firstName'"
E_NAME == "'name' must be a string"
E_FIRST == "'firstName' must be a string"
E_LAST == "'lastName' must be a string"

\* lines 145-165: the validation, "" when the data passes
Validate(data) ==
    IF data.name = Undefined /\ data.lastName = Undefined THEN E_MISSING
    ELSE IF data.name # Undefined
            /\ (data.firstName # Undefined \/ data.lastName # Undefined) THEN E_BOTH
    ELSE IF data.name # Undefined /\ data.fieldMode = Num(0) THEN E_MODE0
    ELSE IF data.fieldMode = Num(1)
            /\ ~(data.firstName = Undefined \/ data.firstName = Str(<<>>)) THEN E_MODE1
    ELSE IF data.name # Undefined /\ ~IsString(data.name) THEN E_NAME
    ELSE IF data.firstName # Undefined /\ ~IsString(data.firstName) THEN E_FIRST
    ELSE IF data.lastName # Undefined /\ ~IsString(data.lastName) THEN E_LAST
    ELSE ""

\* lines 176-180: a name field
CleanName(val) ==
    IF val = Undefined THEN Str(<<>>) ELSE Str(Normalize(Trim(val.v)))

\* lines 182-184: fieldMode
CleanFieldMode(val) ==
    IF Truthy(val) THEN ParseInt(val) ELSE Num(0)

\* lines 167-186: the loop over this.fields
CleanFields(data) ==
    [firstName |-> CleanName(data.firstName),
     lastName |-> CleanName(data.lastName),
     fieldMode |-> CleanFieldMode(data.fieldMode)]

\* HandleName without line 191: the name is stored, the mode is left alone
HandleName_KeepMode(data, cleanedData) ==
    IF data.name # Undefined
    THEN [cleanedData EXCEPT !.lastName = Str(Normalize(Trim(data.name.v)))]
    ELSE cleanedData

\* lines 188-192: API JSON .name
HandleName(data, cleanedData) ==
    IF data.name # Undefined
    THEN [cleanedData EXCEPT !.lastName = Str(Normalize(Trim(data.name.v))),
                             !.fieldMode = Num(1)]
    ELSE cleanedData

\* lines 194-202: the creator type; creatorTypeID stays undefined when no type
\* is given
CleanCreatorType(data) ==
    LET creatorType == IF Truthy(data.creatorType) THEN data.creatorType
                       ELSE data.creatorTypeID
    IN IF Truthy(creatorType) THEN CreatorTypes_getID(creatorType) ELSE Undefined

cleanData(data) ==
    LET error == Validate(data)
        c == HandleName(data, CleanFields(data))
    IN IF error # "" THEN Throw(error)
       ELSE Return([firstName |-> c.firstName, lastName |-> c.lastName,
                    fieldMode |-> c.fieldMode,
                    creatorTypeID |-> CleanCreatorType(data)])

\* A cleaned record handed to cleanData again: its own fields, no name
AsData(c) ==
    [name |-> Undefined, firstName |-> c.firstName, lastName |-> c.lastName,
     fieldMode |-> c.fieldMode, creatorType |-> Undefined,
     creatorTypeID |-> c.creatorTypeID]

\* Zotero.CreatorTypes.getName: the label of a type identity, false for an
\* identity the registry does not know
CreatorTypes_getName(id) == IF id = Num(1) THEN CreatorTypeAuthor ELSE False

\* fields.fieldMode == 1, for the values a cleaned fieldMode can take
LooseEqualsOne(x) == x = Num(1)

\* lines 208-219: the API JSON of a cleaned record; fieldMode and creatorTypeID
\* are not copied
internalToJSON(fields) ==
    [name |-> IF LooseEqualsOne(fields.fieldMode) THEN fields.lastName ELSE Undefined,
     firstName |-> IF LooseEqualsOne(fields.fieldMode) THEN Undefined ELSE fields.firstName,
     lastName |-> IF LooseEqualsOne(fields.fieldMode) THEN Undefined ELSE fields.lastName,
     fieldMode |-> Undefined,
     creatorType |-> CreatorTypes_getName(fields.creatorTypeID),
     creatorTypeID |-> Undefined]

-----------------------------------------------------------------------------
(* Raw inputs of cleanData *)

NameValues == {Undefined, Num(5)} \cup {Str(s) : s \in StringsUpTo(MaxLen)}
\* a field that is absent, of a wrong type, or a plain string
Present == {Undefined, Num(5), Str(<<"e">>)}
FieldModeValues ==
    {Undefined, Num(0), Num(1), Num(2), Str(<<"0">>), Str(<<"1">>), Str(<<"x">>)}
CreatorTypes ==
    {<<Undefined, Undefined>>, <<CreatorTypeAuthor, Undefined>>,
     <<Str(<<"bogus">>), Undefined>>, <<Undefined, Num(1)>>}

\* every name with the other two fields absent, wrong or plain, and every
\* firstName and lastName with name absent, wrong or plain
RawInputs ==
    {[name |-> n[1], firstName |-> n[2], lastName |-> n[3], fieldMode |-> m,
      creatorType |-> t[1], creatorTypeID |-> t[2]] :
        n \in (NameValues \X Present \X Present) \cup (Present \X NameValues \X NameValues),
        m \in FieldModeValues, t \in CreatorTypes}

NotYet == [ok |-> FALSE, err |-> "not applied"]
NoData == [name |-> Undefined, firstName |-> Undefined, lastName |-> Undefined,
           fieldMode |-> Undefined, creatorType |-> Undefined,
           creatorTypeID |-> Undefined]


-----------------------------------------------------------------------------
(* The store and the callers *)

IDs == 1..MaxID
Fetchers == {"f1"}
Resolvers == {"r1", "r2"}

e_ == <<"e">>
Data(name, firstName, lastName, fieldMode, creatorType) ==
    [name |-> name, firstName |-> firstName, lastName |-> lastName,
     fieldMode |-> fieldMode, creatorType |-> creatorType,
     creatorTypeID |-> Undefined]

\* Raw data the callers of getIDFromData pass: two that clean to ("", "e", 0)
\* with different spellings and creator types, two that clean to ("", "e", 1),
\* one through name and one through a string fieldMode, and one that cleanData
\* rejects
ResolveInputs ==
    {Data(Undefined, Undefined, Str(e_), Undefined, Undefined),
     Data(Undefined, Undefined, Str(<<Space, "e">>), Num(0), CreatorTypeAuthor),
     Data(Str(e_), Undefined, Undefined, Undefined, Undefined),
     Data(Undefined, Str(<<>>), Str(e_), Str(<<"1">>), Undefined),
     Data(Undefined, Str(e_), Undefined, Undefined, Undefined)}

\* line 78: data = this.cleanData(data), for each of the callers' inputs
\* an input with a string fieldMode "1" beside a first name
TwoFieldsMode1 == Data(Undefined, Str(e_), Str(e_), Str(<<"1">>), Undefined)

FetchInputs == ResolveInputs \cup {TwoFieldsMode1}

CleanedInput == [d \in FetchInputs |-> cleanData(d)]

\* the columns of table creators that identify a creator
Key(c) == [firstName |-> c.firstName, lastName |-> c.lastName, fieldMode |-> c.fieldMode]

Row(id, c) ==
    [creatorID |-> id, firstName |-> c.firstName, lastName |-> c.lastName,
     fieldMode |-> c.fieldMode]

RowIDs(rows) == {r.creatorID : r \in rows}

Min(S) == CHOOSE x \in S : \A y \in S : x <= y

\* LookupID with the fieldMode condition left out of the WHERE clause
LookupID_NoFieldMode(rows, data) ==
    LET hits == {r.creatorID : r \in {x \in rows : x.firstName = data.firstName
                                                    /\ x.lastName = data.lastName}}
    IN IF hits = {} THEN 0 ELSE Min(hits)

\* lines 80-84: SELECT creatorID FROM creators WHERE firstName=? AND lastName=?
\* AND fieldMode=?  (valueQueryAsync: the first row's value, 0 for none)
LookupID(rows, data) ==
    LET hits == {r.creatorID : r \in {x \in rows : Key(x) = Key(data)}}
    IN IF hits = {} THEN 0 ELSE Min(hits)

\* lines 125-126: SELECT creatorID FROM creators WHERE creatorID NOT IN
\* (SELECT creatorID FROM itemCreators)
Unreferenced(rows, refs) == {r.creatorID : r \in {x \in rows : x.creatorID \notin refs}}

\* AfterDelete with the WHERE clause left out: every row goes
AfterDelete_All(rows, refs) == {}

\* lines 134-135: DELETE FROM creators WHERE creatorID NOT IN (SELECT creatorID
\* FROM itemCreators): the rows that stay
AfterDelete(rows, refs) == {r \in rows : r.creatorID \in refs}

E_NOID == "creatorID not provided"
E_NOTFOUND == "Creator not found"

Init ==
    /\ raw = NoData /\ out = NotYet /\ out2 = NotYet /\ back = NotYet
    /\ creators = {} /\ itemCreators = {} /\ nextID = 1 /\ purgePref = FALSE
    /\ cache = [i \in IDs |-> Undefined]
    /\ purgePC = "idle" /\ toDelete = {} /\ purgeFlag = FALSE /\ deleted = {}
    /\ alone = FALSE
    /\ purged = {}
    /\ fpc = [f \in Fetchers |-> "idle"] /\ fid = [f \in Fetchers |-> 0]
    /\ frow = [f \in Fetchers |-> Undefined] /\ fres = [f \in Fetchers |-> NotYet]
    /\ fstale = [f \in Fetchers |-> FALSE]
    /\ fshared = [f \in Fetchers |-> FALSE]
    /\ upc = "idle" /\ uid = 0 /\ udata = NoData /\ ures = NotYet
    /\ rpc = [r \in Resolvers |-> "idle"] /\ rdata = [r \in Resolvers |-> NoData]
    /\ rcreate = [r \in Resolvers |-> FALSE] /\ rres = [r \in Resolvers |-> NotYet]

-----------------------------------------------------------------------------
(* getAsync *)

\* lines 37-46: the call, to the first yield
GetAsyncCall(f, creatorID) ==
    /\ fpc[f] = "idle"
    /\ fid' = [fid EXCEPT ![f] = creatorID]
    /\ fstale' = [fstale EXCEPT ![f] = creatorID \in purged]
    /\ IF creatorID = 0
       THEN /\ fres' = [fres EXCEPT ![f] = Throw(E_NOID)]
            /\ fpc' = [fpc EXCEPT ![f] = "done"]
       ELSE IF cache[creatorID] # Undefined
       THEN /\ fres' = [fres EXCEPT ![f] = cleanData(AsData(cache[creatorID]))]
            /\ fpc' = [fpc EXCEPT ![f] = "done"]
       ELSE /\ fres' = fres
            /\ fpc' = [fpc EXCEPT ![f] = "query"]
    /\ fshared' = [fshared EXCEPT ![f] = FALSE]
    /\ alone' = FALSE
    /\ UNCHANGED <<cvars, uvars, dbvars, pvars, rvars, cache, frow>>

\* line 46: the store runs SELECT * FROM creators WHERE creatorID=?
GetAsyncQuery(f) ==
    /\ fpc[f] = "query"
    /\ frow' = [frow EXCEPT ![f] =
                  IF fid[f] \in RowIDs(creators)
                  THEN CHOOSE r \in creators : r.creatorID = fid[f]
                  ELSE Undefined]
    /\ fpc' = [fpc EXCEPT ![f] = "row"]
    /\ alone' = FALSE
    /\ UNCHANGED <<cvars, uvars, dbvars, pvars, rvars, cache, fid, fres, fstale, fshared>>

\* lines 47-54: the coroutine resumes with the row
GetAsyncResume(f) ==
    /\ fpc[f] = "row"
    /\ IF frow[f] = Undefined
       THEN /\ fres' = [fres EXCEPT ![f] = Throw(E_NOTFOUND)]
            /\ cache' = cache
            /\ fshared' = fshared
       ELSE LET c == cleanData(Data(Undefined, frow[f].firstName, frow[f].lastName,
                                    frow[f].fieldMode, Undefined))
            IN /\ fres' = [fres EXCEPT ![f] = c]
               /\ cache' = IF c.ok THEN [cache EXCEPT ![fid[f]] = c.val] ELSE cache
               \* line 50 returns the value of the assignment: the object now
               \* in the cache, which replaces the one any other caller holds
               /\ fshared' = IF c.ok
                             THEN [g \in Fetchers |->
                                     IF g = f THEN TRUE
                                     ELSE fshared[g] /\ fid[g] # fid[f]]
                             ELSE fshared
    /\ fpc' = [fpc EXCEPT ![f] = "done"]
    /\ frow' = [frow EXCEPT ![f] = Undefined]
    /\ alone' = FALSE
    /\ UNCHANGED <<cvars, uvars, dbvars, pvars, rvars, fid, fstale>>

\* the caller takes the result
GetAsyncReturn(f) ==
    /\ fpc[f] = "done"
    /\ fpc' = [fpc EXCEPT ![f] = "idle"]
    /\ fid' = [fid EXCEPT ![f] = 0]
    /\ fres' = [fres EXCEPT ![f] = NotYet]
    /\ fstale' = [fstale EXCEPT ![f] = FALSE]
    /\ fshared' = [fshared EXCEPT ![f] = FALSE]
    /\ alone' = FALSE
    /\ UNCHANGED <<cvars, uvars, dbvars, pvars, rvars, cache, frow>>

-----------------------------------------------------------------------------
(* getIDFromData *)

\* lines 77-79: cleanData, then the transaction is queued
GetIDCall(r, data, create) ==
    /\ rpc[r] = "idle"
    /\ LET c == CleanedInput[data]
       IN IF c.ok
          THEN /\ rdata' = [rdata EXCEPT ![r] = c.val]
               /\ rcreate' = [rcreate EXCEPT ![r] = create]
               /\ rpc' = [rpc EXCEPT ![r] = "txn"]
               /\ rres' = rres
          ELSE /\ rres' = [rres EXCEPT ![r] = c]
               /\ rpc' = [rpc EXCEPT ![r] = "done"]
               /\ UNCHANGED <<rdata, rcreate>>
    /\ alone' = FALSE
    /\ UNCHANGED <<cvars, uvars, dbvars, pvars, fvars, cache>>

\* Transaction without the test of create on line 85
Transaction_IgnoreCreate(data, create) ==
    LET id == LookupID(creators, data)
    IN IF id = 0
       THEN [id |-> nextID, rows |-> creators \cup {Row(nextID, data)}, next |-> nextID + 1]
       ELSE [id |-> id, rows |-> creators, next |-> nextID]

\* lines 80-96: the body of the transaction on the tables as they are: the
\* identity it returns (0 stands for the falsy result of a lookup that finds no
\* row) and the tables it leaves
Transaction(data, create) ==
    LET id == LookupID(creators, data)
    IN IF id = 0 /\ create
       THEN [id |-> nextID, rows |-> creators \cup {Row(nextID, data)}, next |-> nextID + 1]
       ELSE [id |-> id, rows |-> creators, next |-> nextID]

\* lines 79-97: the transaction, run by the store as one unit
GetIDTxn(r) ==
    /\ rpc[r] = "txn"
    /\ LET t == Transaction(rdata[r], rcreate[r])
       IN /\ t.next <= MaxID + 1
          /\ creators' = t.rows
          /\ nextID' = t.next
          /\ rres' = [rres EXCEPT ![r] = Return(t.id)]
    /\ rpc' = [rpc EXCEPT ![r] = "done"]
    /\ alone' = FALSE
    /\ UNCHANGED <<cvars, uvars, itemCreators, purgePref, pvars, fvars, cache, rdata, rcreate>>

E_STORE == "store error"

\* Zotero.DB.executeTransaction when its generator or its commit throws: the
\* tables as they were when the transaction began
AfterRollback == creators

\* GetIDTxnFail with the statements of the failed transaction kept
GetIDTxnFail_NoRollback(r) ==
    /\ rpc[r] = "txn"
    /\ LET t == Transaction(rdata[r], rcreate[r])
       IN /\ t.next <= MaxID + 1
          /\ creators' = t.rows
          /\ nextID' \in {nextID, t.next}
    /\ rres' = [rres EXCEPT ![r] = Throw(E_STORE)]
    /\ rpc' = [rpc EXCEPT ![r] = "done"]
    /\ alone' = FALSE
    /\ UNCHANGED <<cvars, uvars, itemCreators, purgePref, pvars, fvars, cache, rdata, rcreate>>

\* lines 79-97: the transaction when a call to the store throws (the SELECT,
\* Zotero.ID.get, the INSERT or the commit): nothing in getIDFromData catches,
\* the call fails with the store's error. An identity taken on line 86 before
\* the failure may stay consumed.
GetIDTxnFail(r) ==
    /\ rpc[r] = "txn"
    /\ LET t == Transaction(rdata[r], rcreate[r])
       IN /\ t.next <= MaxID + 1
          /\ creators' = AfterRollback
          /\ nextID' \in {nextID, t.next}
    /\ rres' = [rres EXCEPT ![r] = Throw(E_STORE)]
    /\ rpc' = [rpc EXCEPT ![r] = "done"]
    /\ alone' = FALSE
    /\ UNCHANGED <<cvars, uvars, itemCreators, purgePref, pvars, fvars, cache, rdata, rcreate>>

\* the caller takes the result
GetIDReturn(r) ==
    /\ rpc[r] = "done"
    /\ rpc' = [rpc EXCEPT ![r] = "idle"]
    /\ rdata' = [rdata EXCEPT ![r] = NoData]
    /\ rcreate' = [rcreate EXCEPT ![r] = FALSE]
    /\ rres' = [rres EXCEPT ![r] = NotYet]
    /\ alone' = FALSE
    /\ UNCHANGED <<cvars, uvars, dbvars, pvars, fvars, cache>>

\* lines 77-98: a whole call of getIDFromData(data, true) that inserts a row,
\* seen from the other coroutines: cleanData and the caller's part touch nothing
\* they read, so the call acts on them when its transaction runs
GetIDFromData(data) ==
    LET c == CleanedInput[data]
        t == Transaction(c.val, TRUE)
    IN /\ c.ok
       /\ t.next <= MaxID + 1
       /\ t.rows # creators
       /\ creators' = t.rows
       /\ nextID' = t.next
       /\ alone' = FALSE
       /\ UNCHANGED <<cvars, uvars, itemCreators, purgePref, pvars, fvars, rvars, cache>>

-----------------------------------------------------------------------------
(* the caller of getAsync *)

ModifiedNames == {Str(e_), Str(<<"acute">>)}

\* the caller assigns lastName on the record getAsync resolved with; when that
\* record is the object of line 50, the assignment is to the cache entry
CallerModifies(f) ==
    /\ fpc[f] = "done" /\ fres[f].ok
    /\ \E s \in ModifiedNames :
          /\ s # fres[f].val.lastName
          /\ fres' = [fres EXCEPT ![f].val.lastName = s]
          /\ cache' = IF fshared[f] /\ cache[fid[f]] # Undefined
                      THEN [cache EXCEPT ![fid[f]].lastName = s]
                      ELSE cache
    /\ alone' = FALSE
    /\ UNCHANGED <<cvars, uvars, dbvars, pvars, rvars, fpc, fid, frow, fstale, fshared>>

-----------------------------------------------------------------------------
(* updateCreator *)

E_NOGET == "this.get is not a function"

UpdateInputs ==
    {[firstName |-> Str(<<>>), lastName |-> Str(<<"acute">>), fieldMode |-> Num(1)],
     [firstName |-> Str(e_), lastName |-> Str(<<"acute">>), fieldMode |-> Num(0)]}

\* lines 101-102: the call evaluates this.get(creatorID); the module defines
\* no member get (lines 27-219), so the call throws a TypeError before any
\* query and the coroutine's promise is rejected; lines 103-109 never run
UpdateCreator(creatorID, creatorData) ==
    /\ upc = "idle"
    /\ uid' = creatorID
    /\ udata' = creatorData
    /\ ures' = Throw(E_NOGET)
    /\ upc' = "done"
    /\ alone' = FALSE
    /\ UNCHANGED <<cvars, dbvars, pvars, fvars, rvars, cache>>

\* the caller takes the result
UpdateReturn ==
    /\ upc = "done"
    /\ upc' = "idle"
    /\ uid' = 0
    /\ udata' = NoData
    /\ ures' = NotYet
    /\ alone' = FALSE
    /\ UNCHANGED <<cvars, dbvars, pvars, fvars, rvars, cache>>

-----------------------------------------------------------------------------
(* purge *)

\* PurgeCall without the test of the preference on lines 119-121
PurgeCall_NoGate ==
    /\ purgePC = "idle"
    /\ purgeFlag' = purgePref
    /\ purgePC' = "select"
    /\ alone' = TRUE
    /\ UNCHANGED <<cvars, uvars, dbvars, fvars, rvars, cache, toDelete, deleted, purged>>

\* lines 118-127: the call, to the first yield
PurgeCall ==
    /\ purgePC = "idle"
    /\ purgeFlag' = purgePref
    /\ purgePC' = IF ~purgePref THEN "returned" ELSE "select"
    /\ alone' = TRUE
    /\ UNCHANGED <<cvars, uvars, dbvars, fvars, rvars, cache, toDelete, deleted, purged>>

\* lines 125-127: the store runs the SELECT of the unreferenced creators
PurgeSelect ==
    /\ purgePC = "select"
    /\ toDelete' = Unreferenced(creators, itemCreators)
    /\ purgePC' = "selected"
    /\ UNCHANGED <<cvars, uvars, dbvars, fvars, rvars, cache, purgeFlag, deleted,
                   alone, purged>>

\* lines 128-139: the coroutine resumes with toDelete: the cache entries are
\* cleared and the DELETE is issued, or the preference is reset at once
PurgeEvict ==
    /\ purgePC = "selected"
    /\ IF toDelete # {}
       THEN /\ cache' = [i \in IDs |-> IF i \in toDelete THEN Undefined ELSE cache[i]]
            /\ purgePC' = "delete"
            /\ UNCHANGED purgePref
       ELSE /\ purgePref' = FALSE
            /\ purgePC' = "returned"
            /\ UNCHANGED cache
    /\ UNCHANGED <<cvars, uvars, creators, itemCreators, nextID, fvars, rvars, toDelete,
                   purgeFlag, deleted, alone, purged>>

\* lines 134-136: the store runs the DELETE
PurgeDelete ==
    /\ purgePC = "delete"
    /\ creators' = AfterDelete(creators, itemCreators)
    /\ deleted' = RowIDs(creators) \ RowIDs(creators')
    /\ purged' = purged \cup (deleted' \cap toDelete)
    /\ purgePC' = "deleted"
    /\ UNCHANGED <<cvars, uvars, itemCreators, nextID, purgePref, fvars, rvars, cache,
                   toDelete, purgeFlag, alone>>

\* line 139: the coroutine resumes after the DELETE
PurgeFinish ==
    /\ purgePC = "deleted"
    /\ purgePref' = FALSE
    /\ purgePC' = "returned"
    /\ UNCHANGED <<cvars, uvars, creators, itemCreators, nextID, fvars, rvars, cache,
                   toDelete, purgeFlag, deleted, alone, purged>>

\* the caller takes the result
PurgeReturn ==
    /\ purgePC = "returned"
    /\ purgePC' = "idle"
    /\ toDelete' = {} /\ purgeFlag' = FALSE /\ deleted' = {}
    /\ alone' = FALSE
    /\ UNCHANGED <<cvars, uvars, dbvars, fvars, rvars, cache, purged>>

-----------------------------------------------------------------------------
(* The rest of the application: items refer to creators through itemCreators
   and ask for a purge through the preference *)

AddAssociation(id) ==
    /\ id \in RowIDs(creators) \ itemCreators
    /\ itemCreators' = itemCreators \cup {id}
    /\ alone' = FALSE
    /\ UNCHANGED <<cvars, uvars, creators, nextID, purgePref, pvars, fvars, rvars, cache>>

RemoveAssociation(id) ==
    /\ id \in itemCreators
    /\ itemCreators' = itemCreators \ {id}
    /\ purgePref' = TRUE
    /\ alone' = FALSE
    /\ UNCHANGED <<cvars, uvars, creators, nextID, pvars, fvars, rvars, cache>>

RequestPurge ==
    /\ ~purgePref
    /\ purgePref' = TRUE
    /\ alone' = FALSE
    /\ UNCHANGED <<cvars, uvars, creators, itemCreators, nextID, pvars, fvars, rvars, cache>>

-----------------------------------------------------------------------------

\* purge beside one caller of getAsync, calls of getIDFromData and the rest of
\* the application
Next ==
    \/ \E id \in 0..MaxID : GetAsyncCall("f1", id)
    \/ GetAsyncQuery("f1")
    \/ GetAsyncResume("f1")
    \/ GetAsyncReturn("f1")
    \/ \E data \in ResolveInputs : GetIDFromData(data)
    \/ PurgeCall
    \/ PurgeSelect
    \/ PurgeEvict
    \/ PurgeDelete
    \/ PurgeFinish
    \/ PurgeReturn
    \/ \E id \in IDs : AddAssociation(id)
    \/ \E id \in IDs : RemoveAssociation(id)
    \/ RequestPurge

Spec == Init /\ [][Next]_vars

\* Concurrent callers of getIDFromData and a caller of getAsync, no purge
NextResolve ==
    \/ \E r \in Resolvers : \E data \in ResolveInputs : \E create \in BOOLEAN :
          GetIDCall(r, data, create)
    \/ \E r \in Resolvers : GetIDTxn(r)
    \/ \E r \in Resolvers : GetIDTxnFail(r)
    \/ \E r \in Resolvers : GetIDReturn(r)
    \/ \E id \in 0..MaxID : GetAsyncCall("f1", id)
    \/ GetAsyncQuery("f1")
    \/ GetAsyncResume("f1")
    \/ GetAsyncReturn("f1")

SpecResolve == Init /\ [][NextResolve]_vars

\* A caller of getAsync that writes to the record it got, calls of
\* getIDFromData and a caller of updateCreator, no purge
NextFetch ==
    \/ \E id \in 0..MaxID : GetAsyncCall("f1", id)
    \/ GetAsyncQuery("f1")
    \/ GetAsyncResume("f1")
    \/ GetAsyncReturn("f1")
    \/ CallerModifies("f1")
    \/ \E data \in FetchInputs : GetIDFromData(data)
    \/ \E id \in IDs : \E data \in UpdateInputs : UpdateCreator(id, data)
    \/ UpdateReturn

SpecFetch == Init /\ [][NextFetch]_vars

-----------------------------------------------------------------------------
(* cleanData applied to every raw input *)

mainvars == <<creators, itemCreators, nextID, purgePref, cache, purgePC, toDelete,
              purgeFlag, deleted, alone, purged, fpc, fid, frow, fres, fstale,
              fshared, rpc, rdata, rcreate, rres, upc, uid, udata, ures>>

InitClean ==
    /\ raw \in RawInputs /\ out = NotYet /\ out2 = NotYet /\ back = NotYet
    /\ creators = {} /\ itemCreators = {} /\ nextID = 1 /\ purgePref = FALSE
    /\ cache = [i \in IDs |-> Undefined]
    /\ purgePC = "idle" /\ toDelete = {} /\ purgeFlag = FALSE /\ deleted = {}
    /\ alone = FALSE
    /\ purged = {}
    /\ fpc = [f \in Fetchers |-> "idle"] /\ fid = [f \in Fetchers |-> 0]
    /\ frow = [f \in Fetchers |-> Undefined] /\ fres = [f \in Fetchers |-> NotYet]
    /\ fstale = [f \in Fetchers |-> FALSE]
    /\ fshared = [f \in Fetchers |-> FALSE]
    /\ upc = "idle" /\ uid = 0 /\ udata = NoData /\ ures = NotYet
    /\ rpc = [r \in Resolvers |-> "idle"] /\ rdata = [r \in Resolvers |-> NoData]
    /\ rcreate = [r \in Resolvers |-> FALSE] /\ rres = [r \in Resolvers |-> NotYet]

\* cleanData(raw)
Clean ==
    /\ out = NotYet
    /\ out' = cleanData(raw)
    /\ UNCHANGED <<raw, out2, back, mainvars>>

\* cleanData on the record cleanData returned
CleanAgain ==
    /\ out.ok /\ out2 = NotYet
    /\ out2' = cleanData(AsData(out.val))
    /\ UNCHANGED <<raw, out, back, mainvars>>

\* cleanData on the API JSON that internalToJSON makes of the record
\* cleanData returned with a creator type the registry knows
RoundTrip ==
    /\ out.ok /\ Truthy(out.val.creatorTypeID) /\ back = NotYet
    /\ back' = cleanData(internalToJSON(out.val))
    /\ UNCHANGED <<raw, out, out2, mainvars>>

NextClean == Clean \/ CleanAgain \/ RoundTrip

SpecClean == InitClean /\ [][NextClean]_vars

-----------------------------------------------------------------------------
(* Properties of getIDFromData *)

RowsWithKey(data) == {r \in creators : Key(r) = Key(data)}

\* C1: two getIDFromData(data, true) calls whose data clean to the same
\* (firstName, lastName, fieldMode), whatever their creator type, return the
\* same identity, and the table holds exactly one row for that tuple.
C1_SameIdentityOneRow ==
    \A p, q \in Resolvers :
        (/\ rpc[p] = "done" /\ rpc[q] = "done"
         /\ rres[p].ok /\ rres[q].ok
         /\ rcreate[p] /\ rcreate[q]
         /\ Key(rdata[p]) = Key(rdata[q]))
        => /\ rres[p].val = rres[q].val
           /\ rres[p].val \in IDs
           /\ Cardinality(RowsWithKey(rdata[p])) = 1
           /\ \E r \in RowsWithKey(rdata[p]) : r.creatorID = rres[p].val

\* two calls with different creator types and the same tuple have both returned
C1_Witness ==
    /\ rpc["r1"] = "done" /\ rpc["r2"] = "done"
    /\ rres["r1"].ok /\ rres["r2"].ok
    /\ rcreate["r1"] /\ rcreate["r2"]
    /\ Key(rdata["r1"]) = Key(rdata["r2"])
    /\ rdata["r1"].creatorTypeID # rdata["r2"].creatorTypeID

-----------------------------------------------------------------------------
(* Properties of purge and getAsync *)

\* C2: a getAsync(X) that starts after a purge run has evicted X and deleted
\* its row fails with "not found".
C2_FetchAfterPurgeFails ==
    \A f \in Fetchers :
        (fpc[f] = "done" /\ fstale[f]) => (~fres[f].ok /\ fres[f].err = E_NOTFOUND)

\* a step of the purge coroutine
PurgeStep == purgePC' # purgePC

\* C3: called with the preference false, purge returns in its first step: it
\* issues no query, deletes no row, clears no cache entry and leaves the
\* preference false.
C3_NoopWhenFlagFalse ==
    [][(PurgeStep /\ purgePC = "idle" /\ ~purgePref)
       => (/\ purgePC' = "returned"
           /\ creators' = creators
           /\ cache' = cache
           /\ ~purgePref')]_vars

\* purge has returned at once although there were an unreferenced row and a
\* cache entry to clear
C3_Witness ==
    /\ purgePC = "returned" /\ ~purgeFlag
    /\ \E i \in Unreferenced(creators, itemCreators) : cache[i] # Undefined

Referenced(rows, refs) == {r \in rows : r.creatorID \in refs}

\* C4: in a purge run that found the preference true and that no other step
\* interleaves with, every step keeps the referenced rows as they are, the
\* preference stays true up to the return, and at the return no unreferenced row
\* is left and the preference is false (also when there was nothing to delete).
C4_PurgeAlone ==
    [][(PurgeStep /\ alone' /\ purgeFlag')
       => (/\ Referenced(creators', itemCreators') = Referenced(creators, itemCreators)
           /\ (purgePC' = "returned"
                 => Unreferenced(creators', itemCreators') = {} /\ ~purgePref')
           /\ (purgePC' # "returned" => purgePref'))]_vars

\* an uninterrupted run has deleted a row and kept another
C4_Witness ==
    /\ purgePC = "returned" /\ alone /\ purgeFlag
    /\ deleted # {} /\ creators # {}

\* C5: every row a purge run deletes is one whose cache entry that run has
\* cleared (the loop on lines 130-132 clears the entries of toDelete); at the
\* least, no identity it deletes without clearing keeps a cache entry.
C5_DeletedAreEvicted ==
    purgePC \in {"deleted", "returned"}
    => \A i \in deleted : i \in toDelete \/ cache[i] = Undefined

-----------------------------------------------------------------------------
(* Properties of cleanData *)

Applied == out # NotYet
Supplied(x) == x # Undefined

\* C6: with string name fields and no fieldMode, cleanData succeeds exactly when
\* name is given alone or firstName and/or lastName are given without name, and
\* then a missing firstName or lastName is "".
C6_NameXorFirstLast ==
    (/\ Applied
     /\ \A x \in {raw.name, raw.firstName, raw.lastName} : Supplied(x) => IsString(x)
     /\ ~Supplied(raw.fieldMode))
    => /\ out.ok <=>
            \/ Supplied(raw.name) /\ ~Supplied(raw.firstName) /\ ~Supplied(raw.lastName)
            \/ ~Supplied(raw.name) /\ (Supplied(raw.firstName) \/ Supplied(raw.lastName))
       /\ out.ok /\ ~Supplied(raw.firstName) => out.val.firstName = Str(<<>>)
       /\ out.ok /\ ~Supplied(raw.name) /\ ~Supplied(raw.lastName)
             => out.val.lastName = Str(<<>>)

\* C7: without name, fieldMode 1 with a non-empty string firstName fails with
\* the error of the fieldMode-1 rule.
C7_Rule4Named ==
    (/\ Applied
     /\ ~Supplied(raw.name)
     /\ raw.fieldMode = Num(1)
     /\ IsString(raw.firstName) /\ raw.firstName.v # <<>>)
    => (~out.ok /\ out.err = E_MODE1)

\* the creator type identity of a cleaned record, undefined when unresolved
TypeID(c) == IF Truthy(c.creatorTypeID) THEN c.creatorTypeID ELSE Undefined

\* C8: cleanData on the record it returned succeeds and returns the same
\* firstName, lastName, fieldMode and creatorTypeID (stated for the inputs whose
\* fieldMode cleans to a number: an absent one, an integer, a numeric string).
C8_Idempotent ==
    (Applied /\ out.ok /\ out2 # NotYet /\ out.val.fieldMode.t = "number")
    => /\ out2.ok
       /\ Key(out2.val) = Key(out.val)
       /\ TypeID(out2.val) = TypeID(out.val)

Trimmed(s) == s = <<>> \/ (s[1] # Space /\ s[Len(s)] # Space)
Composed(s) == \A i \in 1..(Len(s) - 1) : ~(s[i] = "e" /\ s[i + 1] = "acute")

\* C9: a string name without firstName and lastName fails when fieldMode is 0,
\* and otherwise gives firstName "", lastName the trimmed and normalised name,
\* fieldMode 1.
C9_NameForm ==
    (/\ Applied
     /\ IsString(raw.name) /\ ~Supplied(raw.firstName) /\ ~Supplied(raw.lastName))
    => IF raw.fieldMode = Num(0)
       THEN ~out.ok /\ out.err = E_MODE0
       ELSE /\ out.ok
            /\ out.val.firstName = Str(<<>>)
            /\ out.val.lastName = Str(Normalize(Trim(raw.name.v)))
            /\ Trimmed(out.val.lastName.v) /\ Composed(out.val.lastName.v)
            /\ out.val.fieldMode = Num(1)

\* a name that trimming or normalisation changes, with a fieldMode given
C9_Witness ==
    /\ Applied /\ out.ok
    /\ IsString(raw.name) /\ ~Supplied(raw.firstName) /\ ~Supplied(raw.lastName)
    /\ out.val.lastName.v # raw.name.v /\ out.val.lastName.v # <<>>
    /\ Supplied(raw.fieldMode)

\* C10: every record cleanData returns has fieldMode 0 or 1, and firstName ""
\* when fieldMode is 1.
C10_WellFormed ==
    (Applied /\ out.ok)
    => /\ out.val.fieldMode \in {Num(0), Num(1)}
       /\ out.val.fieldMode = Num(1) => out.val.firstName = Str(<<>>)

-----------------------------------------------------------------------------
(* Properties of getIDFromData without create *)

\* C11: the transaction of a getIDFromData call without create leaves the
\* tables and the identity generator alone; it returns no identity (0) when no
\* row has the cleaned (firstName, lastName, fieldMode), and the identity of
\* such a row when there is one.
C11_LookupOnly ==
    [][\A r \in Resolvers :
          (rpc[r] = "txn" /\ rpc'[r] = "done" /\ rres'[r].ok /\ ~rcreate[r])
          => /\ creators' = creators
             /\ nextID' = nextID
             /\ RowsWithKey(rdata[r]) = {} => rres'[r].val = 0
             /\ RowsWithKey(rdata[r]) # {}
                   => \E row \in RowsWithKey(rdata[r]) : row.creatorID = rres'[r].val]_vars

\* a call without create has found no row for its tuple in a table that holds
\* rows, and another has found one
C11_Witness ==
    /\ rpc["r1"] = "done" /\ rres["r1"].ok /\ ~rcreate["r1"] /\ rres["r1"].val = 0
    /\ rpc["r2"] = "done" /\ rres["r2"].ok /\ ~rcreate["r2"] /\ rres["r2"].val \in IDs

ValidationErrors == {E_MISSING, E_BOTH, E_MODE0, E_MODE1, E_NAME, E_FIRST, E_LAST}

\* C14: a step on which a getIDFromData call fails leaves the rows of the table
\* and the cache as they were; a validation error is raised on the call's first
\* step, before its transaction starts, with the identity generator untouched.
C14_FailureChangesNothing ==
    [][\A r \in Resolvers :
          (rpc[r] # "done" /\ rpc'[r] = "done" /\ ~rres'[r].ok)
          => /\ creators' = creators
             /\ cache' = cache
             /\ rres'[r].err \in ValidationErrors
                   => rpc[r] = "idle" /\ nextID' = nextID]_vars

\* a creating call whose tuple has no row has failed in its transaction, after
\* taking an identity, and another call has failed validation
C14_Witness ==
    /\ rpc["r1"] = "done" /\ rres["r1"] = Throw(E_STORE) /\ rcreate["r1"]
    /\ RowsWithKey(rdata["r1"]) = {} /\ nextID = 2
    /\ rpc["r2"] = "done" /\ ~rres["r2"].ok /\ rres["r2"].err \in ValidationErrors

-----------------------------------------------------------------------------
(* Properties of updateCreator *)

\* C12: an updateCreator(id, newData) call for an identity that has a row
\* completes successfully, and the row then holds newData's firstName, lastName
\* and fieldMode.
C12_UpdatePersists ==
    [][(upc = "idle" /\ upc' = "done" /\ uid' \in RowIDs(creators))
       => /\ ures'.ok
          /\ \E row \in creators' : row.creatorID = uid' /\ Key(row) = Key(udata')]_vars

-----------------------------------------------------------------------------
(* Properties of getAsync *)

\* C13: getAsync issues its query only when the cache has no entry for the
\* identity; with an entry it resolves, without a query and without touching the
\* cache, to the entry's fields; resumed with no row it fails with "not found"
\* and leaves the cache without an entry; resumed with a row it succeeds and the
\* cache holds the fields it returns.
C13_CacheDiscipline ==
    [][\A f \in Fetchers :
          /\ (fpc[f] = "idle" /\ fpc'[f] = "query") => cache[fid'[f]] = Undefined
          /\ (fpc[f] = "idle" /\ fpc'[f] = "done" /\ fid'[f] # 0)
                => /\ cache[fid'[f]] # Undefined
                   /\ fres'[f].ok
                   /\ Key(fres'[f].val) = Key(cache[fid'[f]])
                   /\ cache' = cache
          /\ (fpc[f] = "row" /\ fpc'[f] = "done" /\ frow[f] = Undefined)
                => /\ fres'[f] = Throw(E_NOTFOUND)
                   /\ cache'[fid[f]] = Undefined
          /\ (fpc[f] = "row" /\ fpc'[f] = "done" /\ frow[f] # Undefined)
                => /\ fres'[f].ok
                   /\ cache'[fid[f]] # Undefined
                   /\ Key(cache'[fid[f]]) = Key(fres'[f].val)]_vars

\* C15: the first getAsync on an identity whose row getIDFromData inserted
\* succeeds and returns the firstName, lastName and fieldMode of the row, which
\* are those cleanData returned for the input of getIDFromData.
C15_InsertedReadsBack ==
    [][\A f \in Fetchers :
          (fpc[f] = "row" /\ fpc'[f] = "done" /\ frow[f] \in creators)
          => fres'[f].ok /\ Key(fres'[f].val) = Key(frow[f])]_vars

\* C16: a caller writing to the record getAsync resolved with leaves the cache,
\* and with it the result of every later getAsync, as it was.
C16_ResultNotAliased ==
    [][\A f \in Fetchers :
          (fpc[f] = "done" /\ fpc'[f] = "done" /\ fres'[f] # fres[f])
          => cache' = cache]_vars

-----------------------------------------------------------------------------
(* Properties of internalToJSON *)

\* C17: for a record cleanData returned with a resolved creatorTypeID,
\* cleanData(internalToJSON(record)) succeeds and has the record's firstName,
\* lastName, fieldMode and creatorTypeID.
C17_JSONRoundTrip ==
    back # NotYet
    => /\ back.ok
       /\ Key(back.val) = Key(out.val)
       /\ TypeID(back.val) = TypeID(out.val)

====
